---- MODULE Spec2Model ----
(***************************************************************************)
(* The transcribee worker: the poll loop of worker/run.py and the task     *)
(* iteration, the handlers and the sync connections of                     *)
(* worker/transcribee_worker/worker.py, as one state machine for one       *)
(* worker process.  Every network call is a step that succeeds or raises;  *)
(* the coordinator, the sync server and the external algorithms (whisper,  *)
(* the aligner, the diarization) are the environment and choose their      *)
(* answers from small sets.                                                *)
(***************************************************************************)
EXTENDS Integers, Sequences, FiniteSets, TLC

VARIABLES
    pc,             \* where the process is (run / run_task / handler / send_change)
    event,          \* the multiprocessing Event handed to run(): the stop request
    runOnce,        \* args.run_once_and_dont_complete
    replaced,       \* where each earlier subprocess was when its replacement started
    iter,           \* number of run_task calls started so far
    tmpdir,         \* self.tmpdir: 0 for None, else the directory of this iteration
    dirs,           \* the scratch directories of this process that exist on disk
    task,           \* run_task's local `task` (NoTask for None)
    noWork,         \* run_task's local `no_work`, returned to run()
    resultData,     \* self._result_data["progress"]
    exc,            \* the exception last raised (kind "none": none)
    doc,            \* the handler's automerge replica
    conn,           \* the websocket of get_document_state / send_change
    change,         \* the change handed to send_change
    ret,            \* where send_change returns to
    nFrag,          \* paragraphs transcribe_clean has yielded
    alignIdx,       \* align's loop index i
    nCallbacks,     \* progress callbacks the external algorithm has made
    fetched,        \* the replica as get_document_state returned it
    emitted,        \* the paragraphs transcribe_clean has yielded, in order
    aligned,        \* the paragraphs the aligner has yielded, in order
    syncCalls,      \* websockets.connect calls of this iteration
    nTxn,           \* automerge transactions closed in this iteration
    nRequests,      \* HTTP requests made by the handler of this iteration
    nMarks,         \* mark_completed calls of this iteration
    markLog,        \* completion reports the coordinator received in this iteration
    committed,      \* changes produced by this iteration's transactions
    sentLog,        \* changes transmitted in this iteration, in order
    keepalives,     \* keepalive requests the coordinator received in this iteration
    waited,         \* seconds the loop has waited since the last claim attempt
    outcome,        \* how the last claim attempt / iteration ended
    sinceKeepalive  \* time units since the coordinator last heard of the task

vars == <<pc, event, runOnce, replaced, iter, tmpdir, dirs, task, noWork, resultData, exc,
          doc, conn, change, ret, nFrag, alignIdx, nCallbacks, fetched, emitted,
          aligned, syncCalls, nTxn, nRequests, nMarks, markLog, committed, sentLog, keepalives, waited,
          outcome, sinceKeepalive>>

(***************************************************************************)
(* Bounds of the model.                                                    *)
(***************************************************************************)
MaxIter == 2
MaxFrames == 1
MaxBacklog == 2
MaxFragments == 2
MaxCallbacks == 1
MaxTime == 1
MaxReloads == 1
LeaseTimeout == 2

(***************************************************************************)
(* Program constants.                                                      *)
(***************************************************************************)
PollInterval == 5

TaskTypes == {"TRANSCRIBE", "ALIGN", "IDENTIFY_SPEAKERS", "REENCODE"}
HandledTypes == {"IDENTIFY_SPEAKERS", "ALIGN", "TRANSCRIBE"}

SyncMessageType == {"CHANGE", "CHANGE_BACKLOG_COMPLETE", "FULL_DOCUMENT"}
FrameTags == SyncMessageType \cup {"UNKNOWN"}

NoTask == [id |-> 0, type |-> "NONE", hasMedia |-> FALSE]
NoExc == [kind |-> "none", site |-> "none"]
NoConn == [open |-> FALSE, backlogComplete |-> FALSE, frames |-> 0, unknown |-> 0,
           recv |-> <<>>]
NoChange == [seq |-> 0, label |-> "none"]

Times == 0..MaxTime

(***************************************************************************)
(* The document (transcribee_proto.document.Document as the worker uses    *)
(* it): children is None or a list of paragraphs, a paragraph has a        *)
(* speaker and a list of atoms, an atom has text, start and end.           *)
(* childrenObj tells which list object children is: 0 for a list that came *)
(* from the sync server, n for the list the n-th transaction of this       *)
(* iteration created (`d.children = []` makes a new list each time).       *)
(***************************************************************************)
Atom(t, s, e) == [text |-> t, start |-> s, end |-> e]
Para(sp, atoms) == [speaker |-> sp, children |-> atoms]

\* automerge.init(EditorDocument): nothing is set yet.
EmptyDoc ==
    [childrenSet |-> FALSE, childrenObj |-> 0, children |-> <<>>,
     namesSet |-> FALSE, speaker_names |-> <<>>]

InitializedDoc ==
    [childrenSet |-> TRUE, childrenObj |-> 0, children |-> <<>>,
     namesSet |-> TRUE, speaker_names |-> <<>>]

TwoParaDoc ==
    [childrenSet |-> TRUE, childrenObj |-> 0,
     children |-> << Para("none", <<Atom("a", 0, 0), Atom("b", 0, 1)>>),
                     Para("none", <<Atom("a", 1, 1)>>) >>,
     namesSet |-> TRUE, speaker_names |-> <<>>]

\* A document whose children were set by a client that set no speaker_names.
NamelessDoc ==
    [childrenSet |-> TRUE, childrenObj |-> 0,
     children |-> << Para("none", <<Atom("a", 0, 1)>>) >>,
     namesSet |-> FALSE, speaker_names |-> <<>>]

\* What the sync server may send as a FULL_DOCUMENT snapshot.
Snapshots == {EmptyDoc, InitializedDoc, TwoParaDoc, NamelessDoc}

\* What the sync server may send as a CHANGE of the backlog: the initialization
\* of another worker, or a speaker named by an editor.
BacklogChanges ==
    { [op |-> "init", names |-> <<>>],
      [op |-> "name", names |-> ("s1" :> "Speaker 1")] }

NoBacklogChange == [op |-> "none", names |-> <<>>]

\* A frame as get_document_state reads it: msg[0] is the tag, msg[1:] the payload
\* (a snapshot for FULL_DOCUMENT, a change for CHANGE).
Frame(tag, snap, ch) == [tag |-> tag, snap |-> snap, change |-> ch]

\* automerge.apply_changes(doc, [payload]): a change to a map the replica does
\* not have yet has nothing to apply to.
ApplyChange(d, ch) ==
    IF ch.op = "init"
    THEN [d EXCEPT !.childrenSet = TRUE, !.namesSet = TRUE]
    ELSE IF d.namesSet
         THEN [d EXCEPT !.speaker_names = ch.names]
         ELSE d

\* Document.iter_atoms(): the atoms of all paragraphs in document order.
RECURSIVE iter_atoms(_)
iter_atoms(paras) ==
    IF paras = <<>> THEN <<>>
    ELSE Head(paras).children \o iter_atoms(Tail(paras))

\* ensure_timing_invariant(doc): TRUE when no assertion fails.
ensure_timing_invariant(d) ==
    LET atoms == iter_atoms(d.children)
    IN \A i \in 1..(Len(atoms) - 1) : atoms[i].start <= atoms[i + 1].start

\* d.get_change(): None (FALSE) when the transaction left the document as it was.
get_change(before, after) == before # after

\* The paragraphs transcribe_clean may yield.
FragmentPool ==
    { Para("none", <<Atom("a", s, MaxTime)>>) : s \in Times }

\* The paragraphs the aligner may yield: 0..2 atoms, of which only start and end
\* are read.
AlignedAtoms ==
    { a \in { Atom("x", s, e) : s \in Times, e \in Times } : a.end = MaxTime }
AlignedPool ==
    { Para("none", <<>>) }
    \cup { Para("none", <<a>>) : a \in AlignedAtoms }
    \cup { Para("none", <<a, b>>) : a \in {Atom("x", 0, MaxTime)},
                                   b \in {Atom("x", MaxTime, MaxTime)} }

\* What identify_speakers (the external algorithm) may do to the transaction's view.
SpeakerResults(d) ==
    { d,
      [d EXCEPT !.children = [k \in 1..Len(d.children) |->
                                 [d.children[k] EXCEPT !.speaker = "s1"]],
                !.speaker_names = ("s1" :> "Speaker 1")] }

(***************************************************************************)
(* Frames: the variables an action leaves alone.                           *)
(***************************************************************************)
loopVars == <<event, runOnce, replaced>>
traceVars == <<fetched, emitted, aligned>>
handlerVars == <<doc, conn, change, ret, nFrag, alignIdx, nCallbacks>>
logVars == <<syncCalls, nTxn, nRequests, nMarks, markLog, committed, sentLog, keepalives>>

Init ==
    /\ pc = "loop"
    /\ event = FALSE
    /\ runOnce \in BOOLEAN
    /\ replaced = <<>>
    /\ iter = 0
    /\ tmpdir = 0
    /\ dirs = {}
    /\ task = NoTask
    /\ noWork = FALSE
    /\ resultData = <<>>
    /\ exc = NoExc
    /\ doc = EmptyDoc
    /\ conn = NoConn
    /\ change = NoChange
    /\ ret = "none"
    /\ nFrag = 0
    /\ alignIdx = 0
    /\ nCallbacks = 0
    /\ fetched = EmptyDoc
    /\ emitted = <<>>
    /\ aligned = <<>>
    /\ syncCalls = 0
    /\ nTxn = 0
    /\ nRequests = 0
    /\ nMarks = 0
    /\ markLog = <<>>
    /\ committed = 0
    /\ sentLog = <<>>
    /\ keepalives = <<>>
    /\ waited = 0
    /\ outcome = "none"
    /\ sinceKeepalive = 0

(***************************************************************************)
(* run(): the poll loop.                                                   *)
(***************************************************************************)

\* `while not event.is_set()` finds the event set: run() returns.
LoopExit ==
    /\ pc = "loop"
    /\ event
    /\ pc' = "exited"
    /\ UNCHANGED <<event, runOnce, replaced, traceVars, iter, tmpdir, dirs, task, noWork, resultData, exc,
                   handlerVars, logVars, waited, outcome, sinceKeepalive>>

\* The loop calls run_task, whose first statement creates the scratch directory.
RunTaskBegin ==
    /\ pc = "loop"
    /\ ~event
    /\ iter < MaxIter
    /\ iter' = iter + 1
    /\ tmpdir' = iter + 1
    /\ dirs' = dirs \cup {iter + 1}
    /\ pc' = "claim"
    /\ task' = NoTask
    /\ doc' = EmptyDoc
    /\ conn' = NoConn
    /\ change' = NoChange
    /\ ret' = "none"
    /\ nFrag' = 0
    /\ alignIdx' = 0
    /\ nCallbacks' = 0
    /\ fetched' = EmptyDoc
    /\ emitted' = <<>>
    /\ aligned' = <<>>
    /\ syncCalls' = 0
    /\ nTxn' = 0
    /\ nRequests' = 0
    /\ nMarks' = 0
    /\ markLog' = <<>>
    /\ committed' = 0
    /\ sentLog' = <<>>
    /\ keepalives' = <<>>
    /\ UNCHANGED <<event, runOnce, replaced, noWork, resultData, exc, waited, outcome,
                   sinceKeepalive>>

\* Variant: the except clause goes on to the completion report.
RaiseAndComplete(kind, site) ==
    /\ pc' = "returned"
    /\ exc' = [kind |-> kind, site |-> site]
    /\ conn' = NoConn
    /\ outcome' = "task_failed"

\* Variant: the except clause returns to run() at once, past run_task's cleanup.
RaiseLeavesRunTask(kind, site) ==
    /\ pc' = "after"
    /\ exc' = [kind |-> kind, site |-> site]
    /\ conn' = NoConn
    /\ outcome' = "task_failed"

\* An exception raised inside run_task's try block: `except Exception` catches it,
\* logs it, and run_task goes on to its cleanup.  A websocket opened with
\* `async with` is closed on the way out.
Raise(kind, site) ==
    /\ pc' = "cleanup"
    /\ exc' = [kind |-> kind, site |-> site]
    /\ conn' = NoConn
    /\ outcome' = "task_failed"

\* Variant: run_task does not reset _result_data; the progress list is the one
\* Worker.__init__ made.
ClaimTaskAssignedKeepsProgress ==
    /\ pc = "claim"
    /\ \E ty \in TaskTypes, media \in BOOLEAN :
           task' = [id |-> iter, type |-> ty, hasMedia |-> media]
    /\ noWork' = FALSE
    /\ resultData' = resultData
    /\ exc' = NoExc
    /\ outcome' = "running"
    /\ waited' = 0
    /\ sinceKeepalive' = 0
    /\ pc' = "perform"
    /\ UNCHANGED <<loopVars, traceVars, iter, tmpdir, dirs, handlerVars, logVars>>

\* claim_task returns an assigned task; run_task resets _result_data and enters
\* the try block with it.
ClaimTaskAssigned ==
    /\ pc = "claim"
    /\ \E ty \in TaskTypes, media \in BOOLEAN :
           task' = [id |-> iter, type |-> ty, hasMedia |-> media]
    /\ noWork' = FALSE
    /\ resultData' = <<>>
    /\ exc' = NoExc
    /\ outcome' = "running"
    /\ waited' = 0
    /\ sinceKeepalive' = 0
    /\ pc' = "perform"
    /\ UNCHANGED <<loopVars, traceVars, iter, tmpdir, dirs, handlerVars, logVars>>

\* claim_task returns None: no_work = True, nothing is run.
ClaimTaskNone ==
    /\ pc = "claim"
    /\ task' = NoTask
    /\ noWork' = TRUE
    /\ resultData' = <<>>
    /\ exc' = NoExc
    /\ outcome' = "no_task"
    /\ waited' = 0
    /\ pc' = "cleanup"
    /\ UNCHANGED <<loopVars, traceVars, iter, tmpdir, dirs, handlerVars, logVars, sinceKeepalive>>

\* claim_task raises (requests.post fails, raise_for_status, parse_raw_as): the
\* call is outside run_task's try block, so the exception leaves run_task at once.
ClaimTaskRaises ==
    /\ pc = "claim"
    /\ \E kind \in {"ConnectionError", "HTTPError", "ValidationError"} :
           exc' = [kind |-> kind, site |-> "claim"]
    /\ outcome' = "claim_error"
    /\ waited' = 0
    /\ pc' = "run_except"
    /\ UNCHANGED <<loopVars, traceVars, iter, tmpdir, dirs, task, noWork, resultData, handlerVars,
                   logVars, sinceKeepalive>>

\* Variant: run()'s except clauses retry at once, without event.wait(5).
RunExceptRetriesAtOnce ==
    /\ pc = "run_except"
    /\ pc' = "loop"
    /\ UNCHANGED <<loopVars, traceVars, iter, tmpdir, dirs, task, noWork, resultData, exc,
                   handlerVars, logVars, waited, outcome, sinceKeepalive>>

\* run()'s two except clauses: ConnectionError, then Exception; both wait.
RunExcept ==
    /\ pc = "run_except"
    /\ pc' = CASE exc.kind = "ConnectionError" -> "wait"
               [] exc.kind # "none" -> "wait"
               [] OTHER -> "crashed"
    /\ UNCHANGED <<loopVars, traceVars, iter, tmpdir, dirs, task, noWork, resultData, exc,
                   handlerVars, logVars, waited, outcome, sinceKeepalive>>

\* Variant: perform_task has no else branch; a type it does not know falls
\* through and perform_task returns None.
PerformTaskFallsThrough ==
    /\ pc = "perform"
    /\ pc' = IF task.type \in HandledTypes THEN "audio" ELSE "returned"
    /\ UNCHANGED <<exc, conn, outcome>>
    /\ UNCHANGED <<loopVars, traceVars, iter, tmpdir, dirs, task, noWork, resultData,
                   doc, change, ret, nFrag, alignIdx, nCallbacks, logVars, waited,
                   sinceKeepalive>>

\* perform_task: the if/elif chain on task.task_type.
PerformTask ==
    /\ pc = "perform"
    /\ IF task.type \in HandledTypes
       THEN /\ pc' = "audio"
            /\ UNCHANGED <<exc, conn, outcome>>
       ELSE Raise("ValueError", "invalid_task_type")
    /\ UNCHANGED <<loopVars, traceVars, iter, tmpdir, dirs, task, noWork, resultData,
                   doc, change, ret, nFrag, alignIdx, nCallbacks, logVars, waited,
                   sinceKeepalive>>

\* Variant: the handler does not test for missing audio before it fetches the
\* replica.
HandlerNoMediaUnchecked ==
    /\ pc = "audio"
    /\ ~task.hasMedia
    /\ pc' = "gds_connect"
    /\ UNCHANGED <<loopVars, traceVars, iter, tmpdir, dirs, task, noWork, resultData, exc,
                   handlerVars, logVars, waited, outcome, sinceKeepalive>>

\* get_document_audio_bytes returns None for a document without media files, and
\* the handler raises ValueError("... has no audio attached ...").
HandlerNoMedia ==
    /\ pc = "audio"
    /\ ~task.hasMedia
    /\ Raise("ValueError", "no_media")
    /\ UNCHANGED <<loopVars, traceVars, iter, tmpdir, dirs, task, noWork, resultData,
                   doc, change, ret, nFrag, alignIdx, nCallbacks, logVars, waited,
                   sinceKeepalive>>

\* The media file is downloaded (requests.get) and decoded (load_audio).
FetchAudio ==
    /\ pc = "audio"
    /\ task.hasMedia
    /\ nRequests' = nRequests + 1
    /\ pc' = "gds_connect"
    /\ UNCHANGED <<loopVars, traceVars, iter, tmpdir, dirs, task, noWork, resultData, exc,
                   handlerVars, syncCalls, nTxn, nMarks, markLog, committed, sentLog,
                   keepalives, waited, outcome, sinceKeepalive>>

\* The download or the decoding raises.
FetchAudioRaises ==
    /\ pc = "audio"
    /\ task.hasMedia
    /\ nRequests' = nRequests + 1
    /\ \E kind \in {"ConnectionError", "DecodeError"} : Raise(kind, "audio")
    /\ UNCHANGED <<loopVars, traceVars, iter, tmpdir, dirs, task, noWork, resultData,
                   doc, change, ret, nFrag, alignIdx, nCallbacks,
                   syncCalls, nTxn, nMarks, markLog, committed, sentLog,
                   keepalives, waited, sinceKeepalive>>

(***************************************************************************)
(* Helpers shared by the handlers.                                         *)
(***************************************************************************)

\* Variant: a committed change is not sent before the handler goes on.
CommitWithoutSend(newDoc, label, next) ==
    /\ doc' = newDoc
    /\ nTxn' = nTxn + 1
    /\ committed' = IF get_change(doc, newDoc) THEN committed + 1 ELSE committed
    /\ pc' = next
    /\ UNCHANGED <<change, ret>>

\* Closing a transaction that turned the replica into newDoc, then
\* `change = d.get_change(); if change is not None: await self.send_change(...)`:
\* with a change, send_change runs and returns to `next`; without, `next` at once.
Commit(newDoc, label, next) ==
    /\ doc' = newDoc
    /\ nTxn' = nTxn + 1
    /\ IF get_change(doc, newDoc)
       THEN /\ committed' = committed + 1
            /\ change' = [seq |-> committed + 1, label |-> label]
            /\ ret' = next
            /\ pc' = "sc_connect"
       ELSE /\ pc' = next
            /\ UNCHANGED <<committed, change, ret>>

\* _set_progress: the entry is appended to _result_data, then keepalive posts
\* it; the request succeeds, or raises (requests.post, raise_for_status).
SetProgress(step, progress, next) ==
    /\ resultData' = Append(resultData, [step |-> step, progress |-> progress])
    /\ nRequests' = nRequests + 1
    /\ \/ /\ keepalives' = Append(keepalives, [task |-> task.id, progress |-> progress])
          /\ sinceKeepalive' = 0
          /\ pc' = next
          /\ UNCHANGED <<exc, conn, outcome>>
       \/ /\ \E kind \in {"ConnectionError", "HTTPError"} : Raise(kind, "keepalive")
          /\ UNCHANGED <<keepalives, sinceKeepalive>>

\* Where the handler goes on once get_document_state has returned the replica.
AfterGds ==
    CASE task.type = "TRANSCRIBE" -> "tr_reset"
      [] task.type = "IDENTIFY_SPEAKERS" -> "id_progress0"
      [] OTHER -> "al_next"

(***************************************************************************)
(* get_document_state and _init_doc.                                       *)
(***************************************************************************)

\* automerge.init, then websockets.connect.
GdsConnect ==
    /\ pc = "gds_connect"
    /\ doc' = EmptyDoc
    /\ syncCalls' = syncCalls + 1
    /\ conn' = [NoConn EXCEPT !.open = TRUE]
    /\ pc' = "gds_recv"
    /\ UNCHANGED <<loopVars, traceVars, iter, tmpdir, dirs, task, noWork, resultData, exc,
                   change, ret, nFrag, alignIdx, nCallbacks, nTxn, nRequests, nMarks,
                   markLog, committed, sentLog, keepalives, waited, outcome,
                   sinceKeepalive>>

\* websockets.connect raises.
GdsConnectRaises ==
    /\ pc = "gds_connect"
    /\ doc' = EmptyDoc
    /\ syncCalls' = syncCalls + 1
    /\ Raise("WebSocketError", "sync")
    /\ UNCHANGED <<loopVars, traceVars, iter, tmpdir, dirs, task, noWork, resultData,
                   change, ret, nFrag, alignIdx, nCallbacks, nTxn, nRequests, nMarks,
                   markLog, committed, sentLog, keepalives, waited, sinceKeepalive>>

\* The receive loop of get_document_state, one frame per step.
GdsRecvChange ==
    /\ pc = "gds_recv"
    /\ conn.frames < MaxBacklog
    /\ \E ch \in BacklogChanges :
           /\ doc' = ApplyChange(doc, ch)
           /\ conn' = [conn EXCEPT !.frames = @ + 1,
                                    !.recv = Append(@, Frame("CHANGE", EmptyDoc, ch))]
    /\ UNCHANGED <<pc, loopVars, traceVars, iter, tmpdir, dirs, task, noWork, resultData, exc,
                   change, ret, nFrag, alignIdx, nCallbacks, logVars, waited, outcome,
                   sinceKeepalive>>

\* Variant: a FULL_DOCUMENT frame is loaded only into a replica that is still
\* empty.
GdsRecvFullDocumentOnce ==
    /\ pc = "gds_recv"
    /\ conn.frames < MaxBacklog
    /\ \E snap \in Snapshots :
           /\ doc' = IF doc = EmptyDoc THEN snap ELSE doc
           /\ conn' = [conn EXCEPT !.frames = @ + 1,
                                    !.recv = Append(@, Frame("FULL_DOCUMENT", snap,
                                                             NoBacklogChange))]
    /\ UNCHANGED <<pc, loopVars, traceVars, iter, tmpdir, dirs, task, noWork, resultData, exc,
                   change, ret, nFrag, alignIdx, nCallbacks, logVars, waited, outcome,
                   sinceKeepalive>>

GdsRecvFullDocument ==
    /\ pc = "gds_recv"
    /\ conn.frames < MaxBacklog
    /\ \E snap \in Snapshots :
           /\ doc' = snap
           /\ conn' = [conn EXCEPT !.frames = @ + 1,
                                    !.recv = Append(@, Frame("FULL_DOCUMENT", snap,
                                                             NoBacklogChange))]
    /\ UNCHANGED <<pc, loopVars, traceVars, iter, tmpdir, dirs, task, noWork, resultData, exc,
                   change, ret, nFrag, alignIdx, nCallbacks, logVars, waited, outcome,
                   sinceKeepalive>>

\* A frame with another tag matches no branch of the if/elif chain.
GdsRecvUnknown ==
    /\ pc = "gds_recv"
    /\ conn.frames < MaxBacklog
    /\ conn' = [conn EXCEPT !.frames = @ + 1, !.unknown = @ + 1,
                            !.recv = Append(@, Frame("UNKNOWN", EmptyDoc,
                                                     NoBacklogChange))]
    /\ UNCHANGED <<pc, loopVars, traceVars, iter, tmpdir, dirs, task, noWork, resultData, exc,
                   doc, change, ret, nFrag, alignIdx, nCallbacks, logVars, waited,
                   outcome, sinceKeepalive>>

\* CHANGE_BACKLOG_COMPLETE: break, and the `async with` closes the connection.
GdsRecvBacklogComplete ==
    /\ pc = "gds_recv"
    /\ conn' = [conn EXCEPT !.open = FALSE, !.backlogComplete = TRUE]
    /\ pc' = "init_doc"
    /\ UNCHANGED <<loopVars, traceVars, iter, tmpdir, dirs, task, noWork, resultData, exc,
                   doc, change, ret, nFrag, alignIdx, nCallbacks, logVars, waited,
                   outcome, sinceKeepalive>>

\* websocket.recv raises (the connection is lost).
GdsRecvRaises ==
    /\ pc = "gds_recv"
    /\ Raise("WebSocketError", "sync")
    /\ UNCHANGED <<loopVars, traceVars, iter, tmpdir, dirs, task, noWork, resultData,
                   doc, change, ret, nFrag, alignIdx, nCallbacks, logVars, waited,
                   sinceKeepalive>>

\* Variant: _init_doc assigns children without testing for None.
init_doc_unguarded(d) ==
    [d EXCEPT !.childrenSet = TRUE, !.namesSet = TRUE,
              !.childrenObj = nTxn + 1,
              !.children = <<>>,
              !.speaker_names = IF d.namesSet THEN @ ELSE <<>>]

\* _init_doc's transaction: children and speaker_names are set only when None.
init_doc(d) ==
    [d EXCEPT !.childrenSet = TRUE, !.namesSet = TRUE,
              !.childrenObj = IF d.childrenSet THEN @ ELSE nTxn + 1,
              !.children = IF d.childrenSet THEN @ ELSE <<>>,
              !.speaker_names = IF d.namesSet THEN @ ELSE <<>>]

InitDoc ==
    /\ pc = "init_doc"
    /\ Commit(init_doc(doc), "Initialize Document", AfterGds)
    /\ fetched' = init_doc(doc)
    /\ conn' = NoConn
    /\ UNCHANGED <<loopVars, emitted, aligned, iter, tmpdir, dirs, task, noWork, resultData, exc,
                   nFrag, alignIdx, nCallbacks, syncCalls, nRequests, nMarks,
                   markLog, sentLog, keepalives, waited, outcome, sinceKeepalive>>

(***************************************************************************)
(* send_change.                                                            *)
(***************************************************************************)

ScConnect ==
    /\ pc = "sc_connect"
    /\ syncCalls' = syncCalls + 1
    /\ conn' = [NoConn EXCEPT !.open = TRUE]
    /\ pc' = "sc_recv"
    /\ UNCHANGED <<loopVars, traceVars, iter, tmpdir, dirs, task, noWork, resultData, exc,
                   doc, change, ret, nFrag, alignIdx, nCallbacks, nTxn, nRequests,
                   nMarks, markLog, committed, sentLog, keepalives, waited, outcome,
                   sinceKeepalive>>

ScConnectRaises ==
    /\ pc = "sc_connect"
    /\ syncCalls' = syncCalls + 1
    /\ Raise("WebSocketError", "sync")
    /\ UNCHANGED <<loopVars, traceVars, iter, tmpdir, dirs, task, noWork, resultData,
                   doc, change, ret, nFrag, alignIdx, nCallbacks, nTxn, nRequests,
                   nMarks, markLog, committed, sentLog, keepalives, waited,
                   sinceKeepalive>>

\* Variant: the receive loop of send_change ends at the first frame of any tag.
ScRecvFirstFrame(tag) ==
    /\ conn' = [conn EXCEPT !.backlogComplete = (tag = "CHANGE_BACKLOG_COMPLETE")]
    /\ pc' = "sc_send"

\* The receive loop of send_change: `if msg_type == CHANGE_BACKLOG_COMPLETE: break`,
\* any other frame is read and dropped.
ScRecv(tag) ==
    IF tag = "CHANGE_BACKLOG_COMPLETE"
    THEN /\ conn' = [conn EXCEPT !.backlogComplete = TRUE]
         /\ pc' = "sc_send"
    ELSE /\ conn.frames < MaxFrames
         /\ conn' = [conn EXCEPT !.frames = @ + 1,
                                  !.unknown = IF tag = "UNKNOWN" THEN @ + 1 ELSE @]
         /\ pc' = pc

ScRecvFrame ==
    /\ pc = "sc_recv"
    /\ \E tag \in FrameTags : ScRecv(tag)
    /\ UNCHANGED <<loopVars, traceVars, iter, tmpdir, dirs, task, noWork, resultData, exc,
                   doc, change, ret, nFrag, alignIdx, nCallbacks, logVars, waited,
                   outcome, sinceKeepalive>>

ScRecvRaises ==
    /\ pc = "sc_recv"
    /\ Raise("WebSocketError", "sync")
    /\ UNCHANGED <<loopVars, traceVars, iter, tmpdir, dirs, task, noWork, resultData,
                   doc, change, ret, nFrag, alignIdx, nCallbacks, logVars, waited,
                   sinceKeepalive>>

\* websocket.send(change), then the `async with` closes the connection and
\* send_change returns to its caller.
ScSend ==
    /\ pc = "sc_send"
    /\ sentLog' = Append(sentLog, [task |-> task.id, conn |-> syncCalls,
                                   seq |-> change.seq, label |-> change.label,
                                   afterBacklog |-> conn.backlogComplete,
                                   timingOk |-> ensure_timing_invariant(doc)])
    /\ conn' = NoConn
    /\ pc' = ret
    /\ UNCHANGED <<loopVars, traceVars, iter, tmpdir, dirs, task, noWork, resultData, exc,
                   doc, change, ret, nFrag, alignIdx, nCallbacks, syncCalls, nTxn,
                   nRequests, nMarks, markLog, committed, keepalives, waited, outcome,
                   sinceKeepalive>>

ScSendRaises ==
    /\ pc = "sc_send"
    /\ Raise("WebSocketError", "sync")
    /\ UNCHANGED <<loopVars, traceVars, iter, tmpdir, dirs, task, noWork, resultData,
                   doc, change, ret, nFrag, alignIdx, nCallbacks, logVars, waited,
                   sinceKeepalive>>

(***************************************************************************)
(* transcribe.                                                             *)
(***************************************************************************)

\* Variant: transcribe appends to the replica as it was fetched, without the
\* "Reset Document" transaction.
TrResetSkipped ==
    /\ pc = "tr_reset"
    /\ pc' = "tr_next"
    /\ UNCHANGED <<loopVars, traceVars, iter, tmpdir, dirs, task, noWork, resultData, exc,
                   handlerVars, logVars, waited, outcome, sinceKeepalive>>

\* The "Reset Document" transaction: d.children = [].
TrReset ==
    /\ pc = "tr_reset"
    /\ Commit([doc EXCEPT !.childrenSet = TRUE, !.childrenObj = nTxn + 1,
                           !.children = <<>>],
              "Reset Document", "tr_next")
    /\ UNCHANGED <<loopVars, traceVars, iter, tmpdir, dirs, task, noWork, resultData, exc,
                   conn, nFrag, alignIdx, nCallbacks, syncCalls, nRequests, nMarks,
                   markLog, sentLog, keepalives, waited, outcome, sinceKeepalive>>

\* transcribe_clean yields a paragraph: the "Automatic Transcription"
\* transaction appends it.
TrAppend ==
    /\ pc = "tr_next"
    /\ nFrag < MaxFragments
    /\ nFrag' = nFrag + 1
    /\ \E p \in FragmentPool :
           /\ Commit([doc EXCEPT !.children = Append(@, p)],
                     "Automatic Transcription", "tr_next")
           /\ emitted' = Append(emitted, p)
    /\ UNCHANGED <<loopVars, fetched, aligned, iter, tmpdir, dirs, task, noWork, resultData, exc,
                   conn, alignIdx, nCallbacks, syncCalls, nRequests, nMarks,
                   markLog, sentLog, keepalives, waited, outcome, sinceKeepalive>>

\* whisper calls progress_callback: _set_progress(task.id, "whisper", progress / 100).
TrProgress ==
    /\ pc = "tr_next"
    /\ nCallbacks < MaxCallbacks
    /\ nCallbacks' = nCallbacks + 1
    /\ SetProgress("whisper", 50, "tr_next")
    /\ UNCHANGED <<loopVars, traceVars, iter, tmpdir, dirs, task, noWork, doc, change, ret,
                   nFrag, alignIdx, syncCalls, nTxn, nMarks, markLog, committed,
                   sentLog, waited>>

\* transcribe_clean is exhausted: the handler returns.
TrDone ==
    /\ pc = "tr_next"
    /\ pc' = "returned"
    /\ UNCHANGED <<loopVars, traceVars, iter, tmpdir, dirs, task, noWork, resultData, exc,
                   handlerVars, logVars, waited, outcome, sinceKeepalive>>

\* The external algorithm raises (whisper, the diarization or the aligner).
AlgorithmRaises ==
    /\ pc \in {"tr_next", "id_txn", "al_next"}
    /\ Raise("AlgorithmError", "algorithm")
    /\ UNCHANGED <<loopVars, traceVars, iter, tmpdir, dirs, task, noWork, resultData,
                   doc, change, ret, nFrag, alignIdx, nCallbacks, logVars, waited,
                   sinceKeepalive>>

(***************************************************************************)
(* identify_speakers.                                                      *)
(***************************************************************************)

\* self._set_progress(task.id, "identify speakers", progress=0)
IdProgress0 ==
    /\ pc = "id_progress0"
    /\ SetProgress("identify speakers", 0, "id_txn")
    /\ UNCHANGED <<loopVars, traceVars, iter, tmpdir, dirs, task, noWork, doc, change, ret,
                   nFrag, alignIdx, nCallbacks, syncCalls, nTxn, nMarks, markLog,
                   committed, sentLog, waited>>

\* Variant: the progress callback handed to the diarization reports nothing.
IdCallbackSilent ==
    /\ pc = "id_txn"
    /\ nCallbacks < MaxCallbacks
    /\ nCallbacks' = nCallbacks + 1
    /\ UNCHANGED <<pc, resultData, nRequests, keepalives, sinceKeepalive, exc, conn,
                   outcome>>
    /\ UNCHANGED <<loopVars, traceVars, iter, tmpdir, dirs, task, noWork, doc, change, ret,
                   nFrag, alignIdx, syncCalls, nTxn, nMarks, markLog, committed,
                   sentLog, waited>>

\* The diarization calls progress_callback(step, progress) inside the transaction.
IdCallback ==
    /\ pc = "id_txn"
    /\ nCallbacks < MaxCallbacks
    /\ nCallbacks' = nCallbacks + 1
    /\ SetProgress("diarization", 50, "id_txn")
    /\ UNCHANGED <<loopVars, traceVars, iter, tmpdir, dirs, task, noWork, doc, change, ret,
                   nFrag, alignIdx, syncCalls, nTxn, nMarks, markLog, committed,
                   sentLog, waited>>

\* The "Speaker Identification" transaction closes.
IdTxn ==
    /\ pc = "id_txn"
    /\ \E d \in SpeakerResults(doc) : Commit(d, "Speaker Identification", "id_progress1")
    /\ UNCHANGED <<loopVars, traceVars, iter, tmpdir, dirs, task, noWork, resultData, exc,
                   conn, nFrag, alignIdx, nCallbacks, syncCalls, nRequests, nMarks,
                   markLog, sentLog, keepalives, waited, outcome, sinceKeepalive>>

\* self._set_progress(task.id, "identify speakers", progress=1), and the handler
\* returns.
IdProgress1 ==
    /\ pc = "id_progress1"
    /\ SetProgress("identify speakers", 100, "returned")
    /\ UNCHANGED <<loopVars, traceVars, iter, tmpdir, dirs, task, noWork, doc, change, ret,
                   nFrag, alignIdx, nCallbacks, syncCalls, nTxn, nMarks, markLog,
                   committed, sentLog, waited>>

(***************************************************************************)
(* align.                                                                  *)
(***************************************************************************)

\* Variant: the paired atoms are replaced by the aligner's atoms as a whole.
AlignParaWholeAtoms(d_para, al_para) ==
    [d_para EXCEPT !.children =
        [k \in 1..Len(d_para.children) |->
            IF k <= Len(al_para.children)
            THEN al_para.children[k]
            ELSE d_para.children[k]]]

\* for d_atom, al_atom in zip(d_para.children, al_para.children):
\*     d_atom.start = al_atom.start; d_atom.end = al_atom.end
AlignPara(d_para, al_para) ==
    [d_para EXCEPT !.children =
        [k \in 1..Len(d_para.children) |->
            IF k <= Len(al_para.children)
            THEN [d_para.children[k] EXCEPT !.start = al_para.children[k].start,
                                            !.end = al_para.children[k].end]
            ELSE d_para.children[k]]]

\* The aligner yields the aligned paragraph of index alignIdx: the "Alignment"
\* transaction overwrites the times of d.children[i].
AlAlign ==
    /\ pc = "al_next"
    /\ alignIdx < Len(doc.children)
    /\ alignIdx' = alignIdx + 1
    /\ \E al_para \in AlignedPool :
           /\ Commit([doc EXCEPT !.children[alignIdx + 1] = AlignPara(@, al_para)],
                     "Alignment", "al_next")
           /\ aligned' = Append(aligned, al_para)
    /\ UNCHANGED <<loopVars, fetched, emitted, iter, tmpdir, dirs, task, noWork, resultData, exc,
                   conn, nFrag, nCallbacks, syncCalls, nRequests, nMarks,
                   markLog, sentLog, keepalives, waited, outcome, sinceKeepalive>>

\* The aligner yields more paragraphs than the document has: d.children[i]
\* raises IndexError inside the transaction.
AlIndexError ==
    /\ pc = "al_next"
    /\ alignIdx = Len(doc.children)
    /\ Raise("IndexError", "algorithm")
    /\ UNCHANGED <<loopVars, traceVars, iter, tmpdir, dirs, task, noWork, resultData,
                   doc, change, ret, nFrag, alignIdx, nCallbacks, logVars, waited,
                   sinceKeepalive>>

\* The aligner calls progress_callback(progress, extra_data).
AlProgress ==
    /\ pc = "al_next"
    /\ nCallbacks < MaxCallbacks
    /\ nCallbacks' = nCallbacks + 1
    /\ SetProgress("torchaudio aligner", 50, "al_next")
    /\ UNCHANGED <<loopVars, traceVars, iter, tmpdir, dirs, task, noWork, doc, change, ret,
                   nFrag, alignIdx, syncCalls, nTxn, nMarks, markLog, committed,
                   sentLog, waited>>

\* The aligner is exhausted: the handler returns.
AlDone ==
    /\ pc = "al_next"
    /\ pc' = "returned"
    /\ UNCHANGED <<loopVars, traceVars, iter, tmpdir, dirs, task, noWork, resultData, exc,
                   handlerVars, logVars, waited, outcome, sinceKeepalive>>

(***************************************************************************)
(* run_task after perform_task, and the rest of run()'s loop body.         *)
(***************************************************************************)

\* Variant: run_task does not report the completion.
MarkCompletedForgotten ==
    /\ pc = "returned"
    /\ ~runOnce
    /\ outcome' = "task_done"
    /\ pc' = "cleanup"
    /\ UNCHANGED <<loopVars, traceVars, iter, tmpdir, dirs, task, noWork, resultData, exc,
                   handlerVars, logVars, waited, sinceKeepalive>>

\* perform_task returned and mark_completed is True: mark_completed posts
\* completion_data = {**self._result_data, "result": task_result}.
MarkCompleted ==
    /\ pc = "returned"
    /\ ~runOnce
    /\ nMarks' = nMarks + 1
    /\ markLog' = Append(markLog, [task |-> task.id, progress |-> resultData,
                                   result |-> "None"])
    /\ outcome' = "task_done"
    /\ pc' = "cleanup"
    /\ UNCHANGED <<loopVars, traceVars, iter, tmpdir, dirs, task, noWork, resultData, exc,
                   handlerVars, syncCalls, nTxn, nRequests, committed, sentLog,
                   keepalives, waited, sinceKeepalive>>

\* The mark_completed request raises; the same `except Exception` catches it.
MarkCompletedRaises ==
    /\ pc = "returned"
    /\ ~runOnce
    /\ nMarks' = nMarks + 1
    /\ \E kind \in {"ConnectionError", "HTTPError"} : Raise(kind, "mark_completed")
    /\ UNCHANGED <<loopVars, traceVars, iter, tmpdir, dirs, task, noWork, resultData,
                   doc, change, ret, nFrag, alignIdx, nCallbacks, syncCalls, nTxn,
                   nRequests, markLog, committed, sentLog, keepalives, waited,
                   sinceKeepalive>>

\* perform_task returned and mark_completed is False (single-shot mode).
SkipCompletion ==
    /\ pc = "returned"
    /\ runOnce
    /\ outcome' = "task_done"
    /\ pc' = "cleanup"
    /\ UNCHANGED <<loopVars, traceVars, iter, tmpdir, dirs, task, noWork, resultData, exc,
                   handlerVars, logVars, waited, sinceKeepalive>>

\* shutil.rmtree(self.tmpdir); self.tmpdir = None; return no_work
Cleanup ==
    /\ pc = "cleanup"
    /\ dirs' = dirs \ {tmpdir}
    /\ tmpdir' = 0
    /\ sinceKeepalive' = 0
    /\ pc' = "after"
    /\ UNCHANGED <<loopVars, traceVars, iter, task, noWork, resultData, exc, handlerVars,
                   logVars, waited, outcome>>

\* Variant: run() also leaves the loop after an iteration whose handler failed.
AfterRunTaskEndsOnFailure ==
    /\ pc = "after"
    /\ pc' = IF noWork THEN "wait"
             ELSE IF runOnce \/ exc.kind # "none" THEN "exited" ELSE "loop"
    /\ UNCHANGED <<loopVars, traceVars, iter, tmpdir, dirs, task, noWork, resultData, exc,
                   handlerVars, logVars, waited, outcome, sinceKeepalive>>

\* run(): `if no_work: event.wait(5)  elif args.run_once_and_dont_complete: break`
AfterRunTask ==
    /\ pc = "after"
    /\ pc' = IF noWork THEN "wait" ELSE IF runOnce THEN "exited" ELSE "loop"
    /\ UNCHANGED <<loopVars, traceVars, iter, tmpdir, dirs, task, noWork, resultData, exc,
                   handlerVars, logVars, waited, outcome, sinceKeepalive>>

\* event.wait(5) runs its full PollInterval seconds: the event was not set.
WaitTimeout ==
    /\ pc = "wait"
    /\ ~event
    /\ waited' = PollInterval
    /\ pc' = "loop"
    /\ UNCHANGED <<loopVars, traceVars, iter, tmpdir, dirs, task, noWork, resultData, exc,
                   handlerVars, logVars, outcome, sinceKeepalive>>

\* event.wait(5) returns early: the event is set.
WaitInterrupted ==
    /\ pc = "wait"
    /\ event
    /\ pc' = "loop"
    /\ UNCHANGED <<loopVars, traceVars, iter, tmpdir, dirs, task, noWork, resultData, exc,
                   handlerVars, logVars, waited, outcome, sinceKeepalive>>

\* main(), reload mode: a source change makes the supervisor call event.set(),
\* whether the subprocess is still running or not; then it is in p.join().
SetStopEvent ==
    /\ ~event
    /\ event' = TRUE
    /\ UNCHANGED <<pc, runOnce, replaced, traceVars, iter, tmpdir, dirs, task, noWork, resultData, exc,
                   handlerVars, logVars, waited, outcome, sinceKeepalive>>

\* The state of a subprocess that run_sync_in_process has just started: a new
\* Event, a new Worker, run() at its loop test.
Started ==
    /\ pc' = "loop"
    /\ event' = FALSE
    /\ iter' = 0
    /\ tmpdir' = 0
    /\ dirs' = {}
    /\ task' = NoTask
    /\ noWork' = FALSE
    /\ resultData' = <<>>
    /\ exc' = NoExc
    /\ doc' = EmptyDoc
    /\ conn' = NoConn
    /\ change' = NoChange
    /\ ret' = "none"
    /\ nFrag' = 0
    /\ alignIdx' = 0
    /\ nCallbacks' = 0
    /\ fetched' = EmptyDoc
    /\ emitted' = <<>>
    /\ aligned' = <<>>
    /\ syncCalls' = 0
    /\ nTxn' = 0
    /\ nRequests' = 0
    /\ nMarks' = 0
    /\ markLog' = <<>>
    /\ committed' = 0
    /\ sentLog' = <<>>
    /\ keepalives' = <<>>
    /\ waited' = 0
    /\ outcome' = "none"
    /\ sinceKeepalive' = 0

\* Variant: the supervisor starts the replacement without p.join().
ReloadWithoutJoin ==
    /\ event
    /\ Len(replaced) < MaxReloads
    /\ replaced' = Append(replaced, pc)
    /\ Started
    /\ UNCHANGED runOnce

\* main(), reload mode, after event.set(): p.join() returns once the subprocess
\* has exited, and run_sync_in_process(args) starts its replacement.
Reload ==
    /\ event
    /\ pc \in {"exited", "crashed"}
    /\ Len(replaced) < MaxReloads
    /\ replaced' = Append(replaced, pc)
    /\ Started
    /\ UNCHANGED runOnce

\* The positions at which the handler of a claimed task is executing.
HandlerPcs ==
    {"perform", "audio", "gds_connect", "gds_recv", "init_doc", "sc_connect",
     "sc_recv", "sc_send", "tr_reset", "tr_next", "id_progress0", "id_txn",
     "id_progress1", "al_next"}

\* The positions at which the handler waits for a download, for the sync server
\* or for the external algorithm.
BlockingPcs ==
    {"audio", "gds_connect", "gds_recv", "sc_connect", "sc_recv", "sc_send",
     "tr_next", "id_txn", "al_next"}

\* Time passes while the handler is blocked in a call (a download, a websocket
\* receive, the external algorithm): none of them has a timeout, and no timer
\* sends keepalives meanwhile.
Tick ==
    /\ pc \in BlockingPcs
    /\ pc = "audio" => task.hasMedia
    /\ sinceKeepalive < LeaseTimeout
    /\ sinceKeepalive' = sinceKeepalive + 1
    /\ UNCHANGED <<pc, loopVars, traceVars, iter, tmpdir, dirs, task, noWork, resultData, exc,
                   handlerVars, logVars, waited, outcome>>

Next ==
    \/ LoopExit \/ RunTaskBegin
    \/ ClaimTaskAssigned \/ ClaimTaskNone \/ ClaimTaskRaises \/ RunExcept
    \/ PerformTask \/ HandlerNoMedia \/ FetchAudio \/ FetchAudioRaises
    \/ GdsConnect \/ GdsConnectRaises \/ GdsRecvChange \/ GdsRecvFullDocument
    \/ GdsRecvUnknown \/ GdsRecvBacklogComplete \/ GdsRecvRaises \/ InitDoc
    \/ ScConnect \/ ScConnectRaises \/ ScRecvFrame \/ ScRecvRaises
    \/ ScSend \/ ScSendRaises
    \/ TrReset \/ TrAppend \/ TrProgress \/ TrDone \/ AlgorithmRaises
    \/ IdProgress0 \/ IdCallback \/ IdTxn \/ IdProgress1
    \/ AlAlign \/ AlIndexError \/ AlProgress \/ AlDone
    \/ MarkCompleted \/ MarkCompletedRaises \/ SkipCompletion
    \/ Cleanup \/ AfterRunTask \/ WaitTimeout \/ WaitInterrupted
    \/ SetStopEvent

Spec == Init /\ [][Next]_vars

\* The worker under the supervisor of reload mode, which replaces the subprocess.
SpecReload == Init /\ [][Next \/ Reload]_vars

\* The same program with the passing of time made visible.
SpecTimed == Init /\ [][Next \/ Tick]_vars

(***************************************************************************)
(* Properties.                                                             *)
(***************************************************************************)

\* The iteration that was started last is over: run_task has returned or raised.
IterationOver == iter > 0 /\ pc \in {"after", "run_except", "wait", "loop", "exited"}

\* An exception was raised by perform_task (a handler, or the dispatch itself) in
\* the iteration of the current task.
HandlerFailed ==
    /\ task # NoTask
    /\ exc.kind # "none"
    /\ exc.site \notin {"claim", "mark_completed"}

TransportKinds == {"ConnectionError", "HTTPError", "WebSocketError"}

\* C1: whenever an iteration of run_task is over, however it ended, no scratch
\* directory exists any more.
ScratchDirRemovedOnEveryExit == IterationOver => dirs = {}

\* C2, as claimed: outside single-shot mode, an iteration that claimed a task has
\* called mark_completed exactly once when it is over, also when perform_task
\* raised.
MarkCompletedOncePerClaimedTask ==
    (IterationOver /\ task # NoTask /\ ~runOnce) => nMarks = 1

\* C2, amended: outside single-shot mode, an iteration that claimed a task calls
\* mark_completed exactly once when perform_task returned and not at all when it
\* raised; a report that is sent carries the progress entries accumulated in the
\* iteration.
MarkCompletedOnceUnlessHandlerRaised ==
    (task # NoTask /\ ~runOnce) =>
        /\ nMarks <= 1
        /\ Len(markLog) <= nMarks
        /\ \A i \in DOMAIN markLog :
               markLog[i].task = task.id /\ markLog[i].progress = resultData
        /\ IterationOver => nMarks = (IF HandlerFailed THEN 0 ELSE 1)

\* C2 witness: an iteration is over whose handler raised after progress had been
\* accumulated, and no completion was reported.
MarkCompletedWitness ==
    /\ IterationOver /\ ~runOnce
    /\ HandlerFailed
    /\ resultData # <<>>
    /\ nMarks = 0

\* C3: once a handler has failed, the exception is caught inside run_task (the
\* loop goes on, and ends only by single-shot mode or the stop event) and no
\* mark_completed call is made for the task.
HandlerFailureLeavesTaskUnreported ==
    HandlerFailed =>
        /\ nMarks = 0
        /\ markLog = <<>>
        /\ pc \in {"cleanup", "after", "loop", "exited"}
        /\ pc = "exited" => (runOnce \/ event)

\* C3 witness: a handler failed for missing media and the loop is back at its
\* test, without a completion report.
HandlerFailureWitness ==
    /\ HandlerFailed
    /\ exc.site = "no_media"
    /\ ~runOnce
    /\ pc = "loop"
    /\ nMarks = 0

\* C4: a claim attempt that follows an attempt which returned no task or raised
\* is issued only after a wait of the full poll interval, and such an attempt
\* never ends the loop.
NoBusyLoopOnEmptyOrFailedClaim ==
    /\ pc # "crashed"
    /\ (pc = "claim" /\ outcome \in {"no_task", "claim_error"}) => waited = PollInterval
    /\ (pc = "exited" /\ outcome \in {"no_task", "claim_error"}) => event

\* C4 witness: the second claim is about to be issued after the first one raised,
\* the poll interval having passed.
NoBusyLoopWitness ==
    /\ pc = "claim"
    /\ iter = 2
    /\ outcome = "claim_error"
    /\ waited = PollInterval

\* C5: a claim attempt that follows an iteration in which keepalive,
\* mark_completed or a sync connection failed is issued only after a wait of the
\* poll interval.
WaitAfterTransportFailureInTask ==
    (/\ pc = "claim"
     /\ outcome = "task_failed"
     /\ exc.site \in {"keepalive", "mark_completed", "sync"}
     /\ exc.kind \in TransportKinds) => waited = PollInterval

\* C6: while the handler of a claimed task is executing, the time since the
\* coordinator last heard of the task (the claim, or a keepalive) stays below the
\* lease timeout.
LeaseNeverLapsesDuringHandler ==
    pc \in HandlerPcs => sinceKeepalive < LeaseTimeout

\* C7: a change of the transcribe or align handler is handed to send_change, and
\* transmitted, only while the replica satisfies the timing invariant.
TimingInvariantCheckedBeforeSend ==
    /\ (/\ pc \in {"sc_connect", "sc_recv", "sc_send"}
        /\ change.label \in {"Automatic Transcription", "Alignment"})
           => ensure_timing_invariant(doc)
    /\ \A i \in DOMAIN sentLog :
           sentLog[i].label \in {"Automatic Transcription", "Alignment"}
               => sentLog[i].timingOk

\* C8: in an iteration whose task is of a handled type and whose document has no
\* media, no websocket is opened, no transaction is run, no change is sent and
\* no HTTP request (media download, keepalive, completion report) is made; the
\* handler ends with the ValueError for the missing audio.
MissingMediaFailsBeforeAnySync ==
    (task.type \in HandledTypes /\ ~task.hasMedia) =>
        /\ syncCalls = 0
        /\ nTxn = 0
        /\ nRequests = 0
        /\ nMarks = 0
        /\ committed = 0
        /\ sentLog = <<>>
        /\ keepalives = <<>>
        /\ pc \in {"perform", "audio", "cleanup", "after", "loop", "exited"}
        /\ pc \notin {"perform", "audio"}
               => exc = [kind |-> "ValueError", site |-> "no_media"]

\* C8 witness: an ALIGN task without media has failed and its iteration is over.
MissingMediaWitness ==
    /\ task.type = "ALIGN"
    /\ ~task.hasMedia
    /\ pc = "after"
    /\ exc.site = "no_media"
    /\ syncCalls = 0

\* C9: send_change transmits only on an open connection on which
\* CHANGE_BACKLOG_COMPLETE has been received, for every change of every handler
\* and of the initialization.
SendOnlyAfterBacklogComplete ==
    /\ pc = "sc_send" => (conn.open /\ conn.backlogComplete)
    /\ \A i \in DOMAIN sentLog : sentLog[i].afterBacklog

\* C9 witness: a second change is about to be transmitted on a connection on
\* which other frames arrived before CHANGE_BACKLOG_COMPLETE.
SendAfterBacklogWitness ==
    /\ pc = "sc_send"
    /\ conn.frames = MaxFrames
    /\ conn.backlogComplete
    /\ Len(sentLog) >= 1

\* The positions at which a handler opens its next transaction.
TxnPcs == {"init_doc", "tr_reset", "tr_next", "id_txn", "al_next"}

\* C10: within a task the k-th change transmitted is the k-th change committed;
\* at most the last committed change is not transmitted yet, it is the one
\* send_change holds, and none is outstanding when a transaction is opened.
ChangesSentInCommitOrder ==
    /\ \A i \in DOMAIN sentLog : sentLog[i].seq = i
    /\ committed - Len(sentLog) \in {0, 1}
    /\ pc \in TxnPcs => committed = Len(sentLog)
    /\ pc \in {"sc_connect", "sc_recv", "sc_send"}
           => (change.seq = committed /\ committed = Len(sentLog) + 1)

\* C10 witness: a TRANSCRIBE task has transmitted three changes and is ready
\* for the next fragment.
ChangesInOrderWitness ==
    /\ task.type = "TRANSCRIBE"
    /\ pc = "tr_next"
    /\ Len(sentLog) = 3

\* The changes the handler itself sent: sentLog without the change of _init_doc.
HandlerChanges == SelectSeq(sentLog, LAMBDA e : e.label # "Initialize Document")

\* C11: whenever transcribe is about to consume the next fragment, and when it
\* has returned, the document's children are exactly the paragraphs emitted so
\* far, in emitted order, whatever the replica held when it was fetched, and the
\* handler has sent the reset change followed by exactly one change per emitted
\* paragraph: each paragraph's change is sent before the next one is consumed.
TranscribeReplacesDocument ==
    (task.type = "TRANSCRIBE" /\ pc \in {"tr_next", "returned"}) =>
        /\ doc.children = emitted
        /\ Len(emitted) = nFrag
        /\ Len(HandlerChanges) = 1 + Len(emitted)
        /\ HandlerChanges[1].label = "Reset Document"
        /\ \A k \in 2..Len(HandlerChanges) :
               HandlerChanges[k].label = "Automatic Transcription"
        /\ \A k \in 1..Len(sentLog) : sentLog[k].seq = k

\* transcribe returned after two different fragments, on a replica that held
\* paragraphs before.
TranscribeReplacesWitness ==
    /\ task.type = "TRANSCRIBE"
    /\ pc = "returned"
    /\ fetched.children # <<>>
    /\ Len(emitted) = 2
    /\ emitted[1] # emitted[2]

\* align is between two aligned paragraphs, or has returned.
AlignAtRest == task.type = "ALIGN" /\ pc \in {"al_next", "returned"}

\* What align has and has not touched of the replica it fetched: paragraph k of
\* the aligned ones has the aligner's start and end on its first atoms, pair by
\* pair; everything else is as it was fetched.
AlignFrame ==
    /\ Len(aligned) = alignIdx
    /\ Len(doc.children) = Len(fetched.children)
    /\ doc.speaker_names = fetched.speaker_names
    /\ doc.childrenObj = fetched.childrenObj
    /\ \A k \in 1..Len(doc.children) :
          LET d_para == doc.children[k]
              f_para == fetched.children[k]
          IN /\ d_para.speaker = f_para.speaker
             /\ Len(d_para.children) = Len(f_para.children)
             /\ \A j \in 1..Len(d_para.children) :
                   /\ d_para.children[j].text = f_para.children[j].text
                   /\ IF k <= Len(aligned) /\ j <= Len(aligned[k].children)
                      THEN /\ d_para.children[j].start = aligned[k].children[j].start
                           /\ d_para.children[j].end = aligned[k].children[j].end
                      ELSE d_para.children[j] = f_para.children[j]

\* The aligned paragraphs whose transaction changed a time of the replica.
AlignedWithEffect ==
    { k \in 1..Len(aligned) : doc.children[k] # fetched.children[k] }

\* C12 as stated: align overwrites only start and end of the paired atoms of
\* each aligned paragraph, leaves the number of paragraphs and of atoms, the
\* texts, the speakers and speaker_names as they were, and has sent one change
\* per aligned paragraph.
AlignSendsOneChangePerParagraph ==
    AlignAtRest =>
        /\ AlignFrame
        /\ Len(HandlerChanges) = Len(aligned)

\* C12, amended: the same frame, and one change has been sent for each aligned
\* paragraph whose transaction changed a time, none for the others.
AlignSendsOneChangePerChangedParagraph ==
    AlignAtRest =>
        /\ AlignFrame
        /\ Len(HandlerChanges) = Cardinality(AlignedWithEffect)
        /\ \A k \in 1..Len(HandlerChanges) : HandlerChanges[k].label = "Alignment"

\* align returned after two aligned paragraphs, of which one changed the times
\* of its paragraph and one left them as they were.
AlignFrameWitness ==
    /\ task.type = "ALIGN"
    /\ pc = "returned"
    /\ Len(aligned) = 2
    /\ Cardinality(AlignedWithEffect) = 1
    /\ Len(HandlerChanges) = 1

\* What _init_doc makes of a replica: whatever was set is kept, whatever was
\* unset is empty, and a second run finds nothing to do.
InitDocKeepsAndRepeats(d) ==
    LET once == init_doc(d)
        twice == init_doc(once)
    IN /\ once.childrenSet /\ once.namesSet
       /\ d.childrenSet => (once.children = d.children /\ once.childrenObj = d.childrenObj)
       /\ ~d.childrenSet => once.children = <<>>
       /\ d.namesSet => once.speaker_names = d.speaker_names
       /\ ~d.namesSet => once.speaker_names = <<>>
       /\ twice = once
       /\ ~get_change(once, twice)

\* C13: _init_doc sets children to the empty list and speaker_names to the empty
\* map only when they are unset and never overwrites what is set; run again on
\* its own result it leaves the replica unchanged and produces no change; and
\* when it runs on a replica that needs nothing it commits no change and goes
\* on to the handler without a send_change.
InitDocIdempotent ==
    /\ [](InitDocKeepsAndRepeats(doc) /\ InitDocKeepsAndRepeats(fetched))
    /\ [][(pc = "init_doc" /\ doc.childrenSet /\ doc.namesSet) =>
             (doc' = doc /\ committed' = committed /\ sentLog' = sentLog
              /\ pc' \notin {"sc_connect", "sc_recv", "sc_send"})]_vars

\* _init_doc ran on a replica that already had paragraphs: the handler goes on
\* with the paragraphs in place, and nothing was committed or sent.
InitDocIdempotentWitness ==
    /\ pc \in {"tr_reset", "id_progress0", "al_next"}
    /\ nTxn = 1
    /\ committed = 0
    /\ sentLog = <<>>
    /\ fetched = TwoParaDoc
    /\ doc = fetched

\* The tasks named by the requests and changes of this iteration.
TasksServed ==
    { keepalives[k].task : k \in 1..Len(keepalives) }
    \cup { sentLog[k].task : k \in 1..Len(sentLog) }
    \cup { markLog[k].task : k \in 1..Len(markLog) }

\* C14: the worker holds at most one claimed task.  A claim is issued only with
\* no task in hand, no sync connection open and the iteration of the task
\* claimed before it finalized (its scratch directory removed); and every
\* keepalive, change and completion report names the task of the latest claim,
\* never the task of an earlier one.
OneClaimedTaskAtATime ==
    /\ pc = "claim" =>
          /\ task = NoTask
          /\ ~conn.open
          /\ TasksServed = {}
          /\ outcome \in {"task_done", "task_failed"} => (tmpdir - 1) \notin dirs
    /\ TasksServed \subseteq {task.id}
    /\ task # NoTask => task.id = iter
    /\ (task = NoTask \/ pc \notin HandlerPcs) => ~conn.open

\* The second claim is issued after the first task's handler failed, with the
\* first iteration finalized.
OneClaimedTaskWitness ==
    /\ pc = "claim"
    /\ iter = 2
    /\ outcome = "task_failed"
    /\ exc.site = "sync"
    /\ dirs = {tmpdir}

\* C15: run() ends only because the stop event is set (found at the loop test)
\* or, in single-shot mode, after the first iteration that claimed a task; no
\* error of a task ends it or escapes it; and a stop request changes nothing of
\* a running handler, which goes on step by step to the end of its iteration.
LoopEndsOnlyOnStopOrSingleShot ==
    /\ [](pc # "crashed")
    /\ [](pc = "exited" => (event \/ (runOnce /\ ~noWork /\ task # NoTask)))
    /\ []((runOnce /\ pc = "claim") => outcome \in {"none", "no_task", "claim_error"})
    /\ [][(pc' = "exited" /\ pc # "exited") =>
              \/ pc = "loop" /\ event
              \/ pc = "after" /\ runOnce /\ ~noWork /\ task # NoTask]_vars
    /\ [][(event' /\ ~event) =>
              (pc' = pc /\ task' = task /\ doc' = doc /\ conn' = conn /\ exc' = exc)]_vars
    /\ [][(event /\ pc \in HandlerPcs) =>
              pc' \in HandlerPcs \cup {"returned", "cleanup"}]_vars

\* Single-shot mode: the first iteration claimed nothing, the second claimed a
\* task whose handler failed, and run() has ended with the stop event unset.
LoopEndsWitness ==
    /\ pc = "exited"
    /\ runOnce
    /\ ~event
    /\ iter = 2
    /\ outcome = "task_failed"

\* C16: in reload mode the supervisor starts a replacement only after it has
\* set the stop event of the current subprocess and that subprocess has exited,
\* so no two subprocesses are ever alive together; and a subprocess exits only
\* between iterations, from the loop test or from the single-shot break, with
\* no handler running and no sync connection open.
ReloadWaitsForExit ==
    /\ [](\A k \in 1..Len(replaced) : replaced[k] = "exited")
    /\ [][(replaced' # replaced) =>
              /\ event /\ pc = "exited"
              /\ replaced' = Append(replaced, "exited")
              /\ pc' = "loop" /\ ~event' /\ iter' = 0 /\ task' = NoTask]_vars
    /\ [][(pc' = "exited" /\ pc # "exited") =>
              (pc \in {"loop", "after"} /\ pc \notin HandlerPcs /\ ~conn.open)]_vars

\* The replacement subprocess is sending a change of its task; the subprocess
\* before it had exited when the replacement started.
ReloadWitness ==
    /\ Len(replaced) = 1
    /\ replaced[1] = "exited"
    /\ pc = "sc_send"
    /\ task.id = 1

\* C17: a task whose type is none of TRANSCRIBE, ALIGN, IDENTIFY_SPEAKERS runs no
\* handler: no audio is fetched, no sync connection is opened, no transaction
\* runs, no keepalive and no completion report is sent; once perform_task has
\* acted the iteration has failed with the invalid-type ValueError, and it never
\* ends as a success.
UnknownTaskTypeRaises ==
    (task # NoTask /\ task.type \notin HandledTypes) =>
        /\ pc \notin (HandlerPcs \cup {"returned"}) \ {"perform"}
        /\ nRequests = 0
        /\ syncCalls = 0
        /\ nTxn = 0
        /\ keepalives = <<>>
        /\ sentLog = <<>>
        /\ nMarks = 0 /\ markLog = <<>>
        /\ resultData = <<>>
        /\ outcome # "task_done"
        /\ pc # "perform" =>
              /\ exc = [kind |-> "ValueError", site |-> "invalid_task_type"]
              /\ outcome = "task_failed"

\* The iteration of a task of unknown type has ended, failed with the
\* invalid-type error, and run() is back at its loop test.
UnknownTaskTypeWitness ==
    /\ task.type = "REENCODE"
    /\ pc = "loop"
    /\ outcome = "task_failed"
    /\ exc.site = "invalid_task_type"

\* The index of the last FULL_DOCUMENT frame among frames, 0 when there is none.
LastSnapshot(frames) ==
    LET S == { k \in 1..Len(frames) : frames[k].tag = "FULL_DOCUMENT" }
    IN IF S = {} THEN 0 ELSE CHOOSE k \in S : \A j \in S : j <= k

\* The CHANGE frames among frames applied to d, first to last.
RECURSIVE ApplyInOrder(_, _)
ApplyInOrder(d, frames) ==
    IF frames = <<>> THEN d
    ELSE ApplyInOrder(IF Head(frames).tag = "CHANGE"
                      THEN ApplyChange(d, Head(frames).change)
                      ELSE d,
                      Tail(frames))

\* The last snapshot (or the empty document) with the changes after it.
ReplicaOf(frames) ==
    LET k == LastSnapshot(frames)
    IN ApplyInOrder(IF k = 0 THEN EmptyDoc ELSE frames[k].snap,
                    SubSeq(frames, k + 1, Len(frames)))

UnknownFrameAbortsConnection ==
    conn.unknown > 0 =>
        /\ pc \notin {"gds_recv", "init_doc", "sc_recv", "sc_send"}
        /\ exc.kind # "none"

\* identify_speakers' own transaction and change: one "Speaker Identification"
\* transaction after the one of _init_doc, at most one change of it, sent only
\* once the transaction is closed, and none yet while the diarization runs.
IdentifyOneTransactionOneChange ==
    /\ nTxn <= 2
    /\ Len(HandlerChanges) <= 1
    /\ \A k \in 1..Len(HandlerChanges) :
          HandlerChanges[k].label = "Speaker Identification"
    /\ HandlerChanges # <<>> => nTxn = 2
    /\ pc = "id_txn" => (nTxn = 1 /\ HandlerChanges = <<>>)

StepsOf(type) ==
    CASE type = "TRANSCRIBE" -> {"whisper"}
      [] type = "IDENTIFY_SPEAKERS" -> {"identify speakers", "diarization"}
      [] type = "ALIGN" -> {"torchaudio aligner"}
      [] OTHER -> {}

\* progress is what this iteration's _set_progress calls recorded, in order:
\* entry k is the one whose keepalive was the k-th the coordinator received for
\* the task, every step is one of the task's handler, and at most the last
\* entry is one whose keepalive failed.
OwnProgress(progress) ==
    /\ Len(progress) \in {Len(keepalives), Len(keepalives) + 1}
    /\ \A k \in 1..Len(progress) :
          /\ progress[k].step \in StepsOf(task.type)
          /\ k <= Len(keepalives) =>
                (keepalives[k].task = task.id /\ keepalives[k].progress = progress[k].progress)

\* C21: from the claim of a task to the end of its iteration, _result_data
\* holds only the progress entries recorded for that task, in the order they
\* were recorded, and the completion_data mark_completed sends is exactly
\* these entries, one per keepalive of the task: no entry that an earlier
\* iteration recorded is in it.
CompletionHoldsOwnProgressOnly ==
    task # NoTask =>
        /\ OwnProgress(resultData)
        /\ \A m \in 1..Len(markLog) :
              /\ markLog[m].task = task.id
              /\ markLog[m].progress = resultData
              /\ Len(markLog[m].progress) = Len(keepalives)

\* The second iteration of the process has reported the completion of an
\* IDENTIFY_SPEAKERS task with its three progress entries.
CompletionOwnProgressWitness ==
    /\ iter = 2
    /\ task.type = "IDENTIFY_SPEAKERS"
    /\ Len(markLog) = 1
    /\ Len(markLog[1].progress) = 3
    /\ markLog[1].progress[1].step = "identify speakers"
    /\ markLog[1].progress[2].step = "diarization"


====
